---- MODULE Spec2Model ----
(***************************************************************************)
(* Idempotent payment creation with retry (ticket 11) and bulk refunds     *)
(* with dry run, execution and compliance report (ticket 12).              *)
(*                                                                         *)
(* The remote ledger (Stripe) is part of the state: the scripts only call  *)
(* it, so its behaviour is taken from what the scripts' docstrings,        *)
(* comments and exception handlers say about it.                           *)
(***************************************************************************)
EXTENDS Integers, Sequences, FiniteSets, TLC

VARIABLES
    \* ---- ticket 11: the remote ledger and the history of direct calls
    ledger,       \* PaymentIntents the ledger holds, in creation order
    idem,         \* the ledger's idempotency entries still in their validity window
    epoch,        \* key -> number of validity windows of the key that have lapsed
    calls,        \* finished create_payment_safely calls, oldest first
    \* ---- ticket 11: one call of retry_with_backoff
    r_pc,         \* "running" (in the for loop) or "done" (returned)
    r_func,       \* the callable passed as func
    r_kwargs,     \* the keyword arguments passed through to func
    max_retries,
    base_delay,   \* in hundredths of a second
    attempt,      \* the loop variable
    audit_log,
    r_return,     \* what the call returned: <<result, audit_log>>, or None
    net,          \* what the i-th remote request of the call meets
    sent,         \* the remote requests the call has issued
    sleeps,       \* the delays slept, in hundredths of a second
    \* ---- ticket 11: two derivations of a composite key
    id1, id2,     \* the identities (merchant_id, order_id, action) passed
    key1, key2,   \* the keys returned for them
    \* ---- ticket 12: the remote ledger
    payments,     \* PaymentIntent id -> its status, amount and charge
    refunds,      \* the refunds the ledger holds, in creation order
    ext_count,    \* refunds made by others (warranty claims) so far
    \* ---- ticket 12: one run of the script
    b_pc,         \* where the run stands
    test_pi_ids,  \* the candidates passed to discover_eligible_payments
    d_i,          \* index of the next candidate to look at
    eligible,
    skipped,
    previews,     \* what each call of dry_run returned, and the plan it showed
    total_preview,
    e_i,          \* enumerate index of the next payment to refund
    results,
    api_log,      \* the requests the run has sent to the ledger
    report,       \* what generate_compliance_report printed, or None
    pauses,       \* the items of execution after which time.sleep(1) was called
    plans,        \* what each call of discover_eligible_payments returned
    runs,         \* how many times planning or execution was started again
    \* ---- ticket 06: one failed invoice
    inv_error,    \* the invoice's last_finalization_error, or None
    inv_class,    \* what classify_failure returned for it, or None
    breakdown,    \* the report's dict: category -> the codes filed under it
    retry_count,  \* the retries made for the invoice so far
    asked,        \* the last call of should_retry and its answer, or None
    i_pc,         \* where the handling of the invoice stands
    \* ---- ticket 02: the webhook endpoint
    w_pc,         \* where the handling of the current request stands
    w_req,        \* the request being handled, or None
    w_event,      \* the event construct_event returned for it, or None
    w_handled,    \* the handlers invoked for it
    w_log,        \* the requests answered so far, with status and handlers
    \* ---- ticket 09: one call of create_multi_currency_payment
    fx_in,        \* its arguments
    fx_out        \* the PaymentIntent.create request it sent, or None

payVars == <<ledger, idem, epoch, calls>>
retryVars == <<r_pc, r_func, r_kwargs, max_retries, base_delay, attempt, audit_log,
               r_return, net, sent, sleeps>>
keyVars == <<id1, id2, key1, key2>>
rerunVars == <<plans, runs>>
bulkVars == <<payments, refunds, ext_count, b_pc, test_pi_ids, d_i, eligible, skipped,
              previews, total_preview, e_i, results, api_log, report, pauses,
              rerunVars>>
invoiceVars == <<inv_error, inv_class, breakdown, retry_count, asked, i_pc>>
hookVars == <<w_pc, w_req, w_event, w_handled, w_log>>
fxVars == <<fx_in, fx_out>>
deskVars == <<invoiceVars, hookVars, fxVars>>
vars == <<payVars, retryVars, keyVars, bulkVars, deskVars>>

(***************************************************************************)
(* Bounds and input sets                                                   *)
(***************************************************************************)
MaxCalls == 3
MaxEpoch == 1

Keys == {"k1", "k2"}
Amounts == {10000, 20000}
NoKey == "no_key"
\* Python's None
None == [object |-> "None"]

\* What one remote request meets: the ledger answers it ("ok"), the ledger
\* rejects it with a non-connection error, or the connection fails before
\* the request arrives or after the ledger has applied it.
Outcomes == {"ok", "rejected", "conn_before", "conn_after"}

(***************************************************************************)
(* The exception classes of the SDK that the handlers name                 *)
(***************************************************************************)
StripeErrorTypes == {"APIConnectionError", "IdempotencyError", "CardError"}

\* isinstance(e, cls) for the classes the except clauses name
IsInstance(type, cls) ==
    \/ cls = "StripeError" /\ type \in StripeErrorTypes
    \/ cls = type

(***************************************************************************)
(* stripe.PaymentIntent.create as create_payment_safely relies on it:      *)
(* a key used before, within its window, with the same parameters returns  *)
(* the original PaymentIntent; with different parameters it raises         *)
(* IdempotencyError; a request without a key always creates.               *)
(***************************************************************************)
SameParams(e, req) ==
    /\ e.amount = req.amount
    /\ e.currency = req.currency
    /\ e.description = req.description

Applied(req) ==
    LET hit == {e \in idem : e.key = req.idempotency_key}
        id == Len(ledger) + 1
    IN  IF req.idempotency_key # NoKey /\ hit # {}
        THEN LET e == CHOOSE x \in hit : TRUE IN
             IF SameParams(e, req)
             THEN [resp |-> [kind |-> "ok", type |-> "", pi_id |-> e.pi_id,
                             amount |-> e.amount, status |-> "requires_payment_method"],
                   ledger |-> ledger, idem |-> idem]
             ELSE [resp |-> [kind |-> "error", type |-> "IdempotencyError", pi_id |-> 0,
                             amount |-> 0, status |-> ""],
                   ledger |-> ledger, idem |-> idem]
        ELSE [resp |-> [kind |-> "ok", type |-> "", pi_id |-> id,
                        amount |-> req.amount, status |-> "requires_payment_method"],
              ledger |-> Append(ledger, [pi_id |-> id, key |-> req.idempotency_key,
                                         amount |-> req.amount,
                                         epoch |-> IF req.idempotency_key \in Keys
                                                   THEN epoch[req.idempotency_key] ELSE 0]),
              idem |-> IF req.idempotency_key = NoKey THEN idem
                       ELSE idem \cup {[key |-> req.idempotency_key, amount |-> req.amount,
                                        currency |-> req.currency,
                                        description |-> req.description, pi_id |-> id]}]

ConnectionError == [kind |-> "error", type |-> "APIConnectionError", pi_id |-> 0,
                    amount |-> 0, status |-> ""]

StripeCreate(req, outcome) ==
    CASE outcome = "ok" -> Applied(req)
      [] outcome = "conn_after" ->
            [resp |-> ConnectionError, ledger |-> Applied(req).ledger,
             idem |-> Applied(req).idem]
      [] outcome = "conn_before" ->
            [resp |-> ConnectionError, ledger |-> ledger, idem |-> idem]
      [] OTHER ->
            [resp |-> [kind |-> "error", type |-> "CardError", pi_id |-> 0,
                       amount |-> 0, status |-> ""],
             ledger |-> ledger, idem |-> idem]

(***************************************************************************)
(* create_payment_safely                                                   *)
(***************************************************************************)
\* The request without its key: what a caller that forgets the key sends.
PaymentIntentRequestNoKey(amount, currency, description, idempotency_key) ==
    [amount |-> amount, currency |-> currency, description |-> description,
     metadata_key |-> idempotency_key, idempotency_key |-> NoKey]

PaymentIntentRequest(amount, currency, description, idempotency_key) ==
    [amount |-> amount, currency |-> currency, description |-> description,
     metadata_key |-> idempotency_key, idempotency_key |-> idempotency_key]

\* The handlers without the IdempotencyError clause.
ResultOfNoCollisionClause(resp, idempotency_key) ==
    IF resp.kind = "ok"
    THEN [success |-> TRUE, payment_intent_id |-> resp.pi_id, amount |-> resp.amount,
          status |-> resp.status, error_type |-> "", idempotency_key |-> idempotency_key]
    ELSE [success |-> FALSE, payment_intent_id |-> 0, amount |-> 0, status |-> "",
          error_type |-> resp.type, idempotency_key |-> idempotency_key]

\* The returned dict; an absent key (dict.get gives None) is 0 or "".
ResultOf(resp, idempotency_key) ==
    IF resp.kind = "ok"
    THEN [success |-> TRUE, payment_intent_id |-> resp.pi_id, amount |-> resp.amount,
          status |-> resp.status, error_type |-> "", idempotency_key |-> idempotency_key]
    ELSE IF IsInstance(resp.type, "IdempotencyError")
    THEN [success |-> FALSE, payment_intent_id |-> 0, amount |-> 0, status |-> "",
          error_type |-> "idempotency_collision", idempotency_key |-> idempotency_key]
    ELSE [success |-> FALSE, payment_intent_id |-> 0, amount |-> 0, status |-> "",
          error_type |-> resp.type, idempotency_key |-> idempotency_key]

create_payment_safely(amount, currency, description, idempotency_key, outcome) ==
    LET out == StripeCreate(PaymentIntentRequest(amount, currency, description,
                                                 idempotency_key), outcome)
    IN  [result |-> ResultOf(out.resp, idempotency_key),
         sdk_error |-> out.resp.type,
         ledger |-> out.ledger, idem |-> out.idem]

(***************************************************************************)
(* Actions of the payment specification                                    *)
(***************************************************************************)
\* The amount the ledger holds for the key when a call starts (0: none).
PriorAmount(k) ==
    IF \E e \in idem : e.key = k
    THEN (CHOOSE e \in idem : e.key = k).amount
    ELSE 0

DirectCall(k, a, o) ==
    /\ Len(calls) < MaxCalls
    /\ LET c == create_payment_safely(a, "eur", "TravelBook booking", k, o) IN
         /\ ledger' = c.ledger
         /\ idem' = c.idem
         /\ calls' = Append(calls, [key |-> k, amount |-> a, outcome |-> o,
                                    epoch |-> epoch[k], prior |-> PriorAmount(k),
                                    records_before |-> Len(ledger),
                                    records_after |-> Len(c.ledger),
                                    result |-> c.result])
    /\ UNCHANGED <<epoch, retryVars, keyVars, bulkVars, deskVars>>

KeyExpires(k) ==
    /\ epoch[k] < MaxEpoch
    /\ \E e \in idem : e.key = k
    /\ idem' = {e \in idem : e.key # k}
    /\ epoch' = [epoch EXCEPT ![k] = @ + 1]
    /\ UNCHANGED <<ledger, calls, retryVars, keyVars, bulkVars, deskVars>>

\* No invoice, webhook request or multi-currency payment is under study.
InvoiceIdle ==
    /\ inv_error = None
    /\ inv_class = None
    /\ breakdown = <<>>
    /\ retry_count = 0
    /\ asked = None
    /\ i_pc = "idle"

HookIdle ==
    /\ w_pc = "idle"
    /\ w_req = None
    /\ w_event = None
    /\ w_handled = <<>>
    /\ w_log = <<>>

FxIdle ==
    /\ fx_in = None
    /\ fx_out = None

DeskIdle == InvoiceIdle /\ HookIdle /\ FxIdle

\* The bulk refund script is not run.
BulkIdle ==
    /\ payments = <<>>
    /\ refunds = <<>>
    /\ ext_count = 0
    /\ b_pc = "idle"
    /\ test_pi_ids = <<>>
    /\ d_i = 0
    /\ eligible = <<>>
    /\ skipped = <<>>
    /\ previews = <<>>
    /\ total_preview = 0
    /\ e_i = 0
    /\ results = [succeeded |-> <<>>, failed |-> <<>>]
    /\ api_log = <<>>
    /\ report = None
    /\ pauses = <<>>
    /\ plans = <<>>
    /\ runs = 0

\* No key derivation is under study.
KeyIdle ==
    /\ id1 = <<>>
    /\ id2 = <<>>
    /\ key1 = None
    /\ key2 = None

\* No call of retry_with_backoff is in progress or was made.
RetryIdle ==
    /\ r_pc = "idle"
    /\ r_func = ""
    /\ r_kwargs = [amount |-> 0, idempotency_key |-> NoKey]
    /\ max_retries = 0
    /\ base_delay = 0
    /\ attempt = 0
    /\ audit_log = <<>>
    /\ r_return = None
    /\ net = <<>>
    /\ sent = <<>>
    /\ sleeps = <<>>

InitPay ==
    /\ DeskIdle
    /\ ledger = <<>>
    /\ idem = {}
    /\ epoch = [k \in Keys |-> 0]
    /\ calls = <<>>
    /\ RetryIdle
    /\ KeyIdle
    /\ BulkIdle

NextPay ==
    \/ \E k \in Keys, a \in Amounts, o \in Outcomes : DirectCall(k, a, o)
    \/ \E k \in Keys : KeyExpires(k)

SpecPay == InitPay /\ [][NextPay]_vars

(***************************************************************************)
(* Claims about create_payment_safely (checked under SpecPay)              *)
(***************************************************************************)
CallIds == 1..Len(calls)

\* The ledger gave its answer to the caller.
Answered(c) == c.outcome = "ok"
\* The request reached the ledger (the answer may have been lost).
Reached(c) == c.outcome \in {"ok", "conn_after"}

\* The calls made with key k during window e of the key.
Group(k, e) == {i \in CallIds : calls[i].key = k /\ calls[i].epoch = e}
RecordsOf(k, e) == {r \in 1..Len(ledger) : ledger[r].key = k /\ ledger[r].epoch = e}
SameOperation(G) == \A i, j \in G : calls[i].amount = calls[j].amount

\* C1: N calls of create_payment_safely with the same parameters and the same
\* key, within one validity window of the key, leave exactly one payment
\* record of the key on the ledger (never more than one, and one as soon as a
\* request has reached the ledger), and every call the ledger answered
\* returns success with the same payment_intent_id, that of the record.
C1_Idempotence ==
    \A k \in Keys, e \in 0..MaxEpoch :
        /\ Cardinality(RecordsOf(k, e)) <= 1
        /\ SameOperation(Group(k, e)) =>
             /\ (\E i \in Group(k, e) : Reached(calls[i]))
                    => Cardinality(RecordsOf(k, e)) = 1
             /\ \A i \in Group(k, e) : Answered(calls[i]) =>
                    /\ calls[i].result.success
                    /\ \A r \in RecordsOf(k, e) :
                          calls[i].result.payment_intent_id = ledger[r].pi_id
             /\ \A i, j \in Group(k, e) : (Answered(calls[i]) /\ Answered(calls[j])) =>
                    calls[i].result.payment_intent_id = calls[j].result.payment_intent_id

\* Three answered calls of one operation under one key, one record.
C1_Witness ==
    \E k \in Keys :
        /\ Cardinality(Group(k, 0)) >= 3
        /\ SameOperation(Group(k, 0))
        /\ \A i \in Group(k, 0) : Answered(calls[i]) /\ calls[i].result.success
        /\ Cardinality(RecordsOf(k, 0)) = 1

\* A call whose key the ledger already holds with a different amount.
IsCollision(c) == c.prior # 0 /\ c.prior # c.amount

\* C2: a call with a key already used and a different amount creates no
\* payment record, and when the ledger answers it, it returns a failure whose
\* error_type is 'idempotency_collision', which is no generic error type.
C2_CollisionDetected ==
    \A i \in CallIds : IsCollision(calls[i]) =>
        /\ calls[i].records_after = calls[i].records_before
        /\ Answered(calls[i]) =>
              /\ ~calls[i].result.success
              /\ calls[i].result.error_type = "idempotency_collision"
              /\ calls[i].result.error_type \notin StripeErrorTypes

C2_Witness ==
    \E i \in CallIds :
        /\ IsCollision(calls[i])
        /\ Answered(calls[i])
        /\ calls[i].result.error_type = "idempotency_collision"
        /\ Len(ledger) = 1

(***************************************************************************)
(* retry_with_backoff                                                      *)
(***************************************************************************)
MaxRetries == 3

\* base_delay in hundredths of a second: 0.25 s and the default 1.0 s
BaseDelays == {25, 100}
\* random.uniform(0, 0.5), in hundredths of a second: both ends of the range
Jitters == {0, 50}
\* round(elapsed * 1000)
ElapsedMs == {2, 350}
\* func: the safe creation of this script, or the SDK call itself
Funcs == {"create_payment_safely", "PaymentIntent_create"}

RECURSIVE Pow2(_)
Pow2(n) == IF n <= 0 THEN 1 ELSE 2 * Pow2(n - 1)

\* base_delay * (2 ** (attempt - 1)) + random.uniform(0, 0.5); on this grid
\* round(delay, 2) changes nothing.
BackoffDelay(base, att, jitter) == base * Pow2(att - 1) + jitter

\* dict.get(key): None (0 here) for a missing key
DictGet(d, key) == IF key \in DOMAIN d THEN d[key] ELSE 0

\* func(**kwargs): what it raises ("" when it returns), the error the SDK
\* call inside it ended in ("" for none), what it returns, and the ledger
\* after it.
CallFunc(func, kwargs, outcome) ==
    IF func = "create_payment_safely"
    THEN LET c == create_payment_safely(kwargs.amount, "eur", "TravelBook booking",
                                        kwargs.idempotency_key, outcome)
         IN  [raised |-> "", sdk_error |-> c.sdk_error, result |-> c.result,
              ledger |-> c.ledger, idem |-> c.idem]
    ELSE LET out == StripeCreate(PaymentIntentRequest(kwargs.amount, "eur",
                                     "TravelBook booking", kwargs.idempotency_key),
                                 outcome)
         IN  IF out.resp.kind = "ok"
             THEN [raised |-> "", sdk_error |-> "",
                   result |-> [object |-> "payment_intent", id |-> out.resp.pi_id,
                               amount |-> out.resp.amount, status |-> out.resp.status],
                   ledger |-> out.ledger, idem |-> out.idem]
             ELSE [raised |-> out.resp.type, sdk_error |-> out.resp.type, result |-> None,
                   ledger |-> out.ledger, idem |-> out.idem]

\* Every except clause taken as the connection-error clause.
CaughtRetryAll(raised) ==
    IF raised = "" THEN "return" ELSE "connection_error"

\* The clause of the try statement that handles what func did: the normal
\* return, 'except APIConnectionError', or 'except StripeError'.
Caught(raised) ==
    IF raised = "" THEN "return"
    ELSE IF IsInstance(raised, "APIConnectionError") THEN "connection_error"
    ELSE "stripe_error"

\* 'attempt <= max_retries' for 'attempt < max_retries'.
MoreAttemptsOffByOne(att, maxr) == att <= maxr

\* if attempt < max_retries: sleep and go on; else: give up
MoreAttempts(att, maxr) == att < maxr

\* A fresh key for every attempt, as generate_uuid_key would give.
AttemptKwargsFreshKey(kwargs, att) ==
    [kwargs EXCEPT !.idempotency_key =
        <<"uuid-1", "uuid-2", "uuid-3", "uuid-4", "uuid-5">>[((att - 1) % 5) + 1]]

\* The keyword arguments func gets on an attempt: **kwargs, as passed in.
AttemptKwargs(kwargs, att) == kwargs

\* 'audit_log = [entry]' for 'audit_log.append(entry)'.
AppendLogReplacing(log, entry) == <<entry>>

\* audit_log.append(entry)
AppendLog(log, entry) == Append(log, entry)

\* One iteration of the for loop: the call of func, the log entry, and the
\* return or the sleep that follows.
RetryAttempt(jitter, elapsed_ms) ==
    /\ r_pc = "running"
    /\ attempt <= max_retries
    /\ LET kw == AttemptKwargs(r_kwargs, attempt)
           c == CallFunc(r_func, kw, net[attempt])
           delay == BackoffDelay(base_delay, attempt, jitter)
           clause == Caught(c.raised)
       IN  /\ ledger' = c.ledger
           /\ idem' = c.idem
           /\ sent' = Append(sent, [amount |-> kw.amount,
                                    idempotency_key |-> kw.idempotency_key,
                                    outcome |-> net[attempt],
                                    error |-> c.sdk_error])
           /\ IF clause = "return"
              THEN /\ audit_log' = AppendLog(audit_log,
                          [attempt |-> attempt, status |-> "success",
                           elapsed_ms |-> elapsed_ms,
                           payment_intent_id |-> DictGet(c.result, "payment_intent_id")])
                   /\ r_return' = <<c.result, audit_log'>>
                   /\ r_pc' = "done"
                   /\ UNCHANGED <<attempt, sleeps>>
              ELSE IF clause = "connection_error"
              THEN /\ audit_log' = AppendLog(audit_log,
                          [attempt |-> attempt, status |-> "connection_error",
                           elapsed_ms |-> elapsed_ms, retry_delay_s |-> delay,
                           error |-> c.raised])
                   /\ IF MoreAttempts(attempt, max_retries)
                      THEN /\ sleeps' = Append(sleeps, delay)
                           /\ attempt' = attempt + 1
                           /\ UNCHANGED <<r_pc, r_return>>
                      ELSE /\ r_return' = <<None, audit_log'>>
                           /\ r_pc' = "done"
                           /\ UNCHANGED <<attempt, sleeps>>
              ELSE /\ audit_log' = AppendLog(audit_log,
                          [attempt |-> attempt, status |-> "stripe_error",
                           elapsed_ms |-> elapsed_ms, error |-> c.raised])
                   /\ r_return' = <<None, audit_log'>>
                   /\ r_pc' = "done"
                   /\ UNCHANGED <<attempt, sleeps>>
    /\ UNCHANGED <<epoch, calls, r_func, r_kwargs, max_retries, base_delay, net, keyVars,
                   bulkVars, deskVars>>

\* range(1, max_retries + 1) is empty: the function ends without a return
\* statement.
RetryFallThrough ==
    /\ r_pc = "running"
    /\ attempt > max_retries
    /\ r_return' = None
    /\ r_pc' = "done"
    /\ UNCHANGED <<payVars, r_func, r_kwargs, max_retries, base_delay, attempt,
                   audit_log, net, sent, sleeps, keyVars, bulkVars, deskVars>>

\* The ledger before the call: empty, or holding one payment made earlier
\* with the same key.
InitRetry ==
    /\ DeskIdle
    /\ epoch = [k \in Keys |-> 0]
    /\ calls = <<>>
    /\ \E prior \in {0} \cup Amounts :
          IF prior = 0
          THEN ledger = <<>> /\ idem = {}
          ELSE /\ ledger = <<[pi_id |-> 1, key |-> "k1", amount |-> prior, epoch |-> 0]>>
               /\ idem = {[key |-> "k1", amount |-> prior, currency |-> "eur",
                           description |-> "TravelBook booking", pi_id |-> 1]}
    /\ r_pc = "running"
    /\ r_func \in Funcs
    /\ r_kwargs \in [amount : Amounts, idempotency_key : {"k1"}]
    /\ max_retries \in 0..MaxRetries
    /\ base_delay \in BaseDelays
    /\ attempt = 1
    /\ audit_log = <<>>
    /\ r_return = None
    /\ net \in [1..max_retries -> Outcomes]
    /\ sent = <<>>
    /\ sleeps = <<>>
    /\ KeyIdle
    /\ BulkIdle

NextRetry ==
    \/ \E j \in Jitters, el \in ElapsedMs : RetryAttempt(j, el)
    \/ RetryFallThrough

SpecRetry == InitRetry /\ [][NextRetry]_vars

\* C3: a call of retry_with_backoff whose attempts 1 and 2 failed with a
\* connection error and whose attempt 3 succeeded leaves exactly one payment
\* record, returns a log of exactly 3 entries, and the delay recorded for
\* attempt 2 is strictly greater than the one recorded for attempt 1.
C3_RetrySafety ==
    ( /\ r_pc = "done"
      /\ Len(audit_log) >= 3
      /\ audit_log[1].status = "connection_error"
      /\ audit_log[2].status = "connection_error"
      /\ audit_log[3].status = "success" )
    => /\ Len(ledger) = 1
       /\ Len(r_return[2]) = 3
       /\ audit_log[2].retry_delay_s > audit_log[1].retry_delay_s

\* What the call returned is the pair (result, audit_log).
IsPair(v) == DOMAIN v = 1..2

\* A result that reports no payment: None, or a dict with success False.
FailedResult(v) ==
    \/ v = None
    \/ ("success" \in DOMAIN v /\ ~v.success)

\* The SDK call of attempt i ended in a Stripe error other than a connection
\* error: a card error or an idempotency collision.
Definitive(i) == sent[i].error \notin {"", "APIConnectionError"}

\* C11: when the request of an attempt ends in a Stripe error that is not a
\* connection error, that attempt is the last one: no request and no sleep
\* follows it, whatever max_retries still allows, and the call has returned a
\* failed result together with the log, one entry per attempt made.
C11_NoRetryOnDefinitive ==
    \A i \in 1..Len(sent) :
        Definitive(i) =>
            /\ i = Len(sent)
            /\ Len(sleeps) = i - 1
            /\ r_pc = "done"
            /\ IsPair(r_return)
            /\ FailedResult(r_return[1])
            /\ r_return[2] = audit_log
            /\ Len(audit_log) = i

\* A collision on attempt 2 of 3, after one connection error, raised to the
\* retrier.
C11_Witness ==
    /\ r_func = "PaymentIntent_create"
    /\ max_retries = 3
    /\ r_pc = "done"
    /\ Len(sent) = 2
    /\ sent[1].error = "APIConnectionError"
    /\ sent[2].error = "IdempotencyError"
    /\ Len(sleeps) = 1

\* Every attempt logged so far raised a connection error into the retrier.
AllTransient ==
    /\ audit_log # <<>>
    /\ \A i \in 1..Len(audit_log) : audit_log[i].status = "connection_error"

\* C12: with max_retries >= 1, func is invoked at most max_retries times and
\* the call has returned once max_retries invocations are made; when every
\* attempt raised a connection error the call returns (None, log) after
\* exactly max_retries attempts and the last log entry is the connection
\* error of attempt max_retries.
C12_BoundedRetry ==
    max_retries >= 1 =>
        /\ Len(sent) <= max_retries
        /\ attempt <= max_retries
        /\ (Len(sent) = max_retries => r_pc = "done")
        /\ (r_pc = "done" /\ AllTransient) =>
              /\ Len(sent) = max_retries
              /\ Len(audit_log) = max_retries
              /\ Len(sleeps) = max_retries - 1
              /\ IsPair(r_return)
              /\ r_return[1] = None
              /\ r_return[2] = audit_log
              /\ audit_log[Len(audit_log)].attempt = max_retries
              /\ audit_log[Len(audit_log)].error = "APIConnectionError"

\* Three attempts of three, all raising a connection error.
C12_Witness ==
    /\ max_retries = 3
    /\ r_pc = "done"
    /\ AllTransient
    /\ Len(sent) = 3

\* C13: when create_payment_safely runs under retry_with_backoff and the
\* request of an attempt that is not the last one ends in a connection error,
\* the retrier logs a connection error for that attempt and makes another
\* attempt with the same key.
C13_TransientReachesRetrier ==
    \A i \in 1..Len(sent) :
        ( /\ r_func = "create_payment_safely"
          /\ sent[i].error = "APIConnectionError"
          /\ i < max_retries )
        => /\ audit_log[i].status = "connection_error"
           /\ (r_pc = "done" =>
                  /\ Len(sent) > i
                  /\ sent[i + 1].idempotency_key = sent[i].idempotency_key)

\* C15: every attempt of one call of retry_with_backoff sends the keyword
\* arguments the call was given: the same idempotency key and the same amount
\* on attempt 1 and on every later attempt.
C15_SameKeyEveryAttempt ==
    \A i \in 1..Len(sent) :
        /\ sent[i].idempotency_key = r_kwargs.idempotency_key
        /\ sent[i].amount = r_kwargs.amount
        /\ sent[i].idempotency_key = sent[1].idempotency_key

\* A second and a third attempt were made, the third one answered.
C15_Witness ==
    /\ Len(sent) = 3
    /\ sent[1].error = "APIConnectionError"
    /\ sent[2].error = "APIConnectionError"
    /\ sent[3].error = ""
    /\ sent[3].idempotency_key = "k1"

\* C16: at every point the log holds exactly one entry per attempt made so
\* far, entry i carrying attempt number i and an elapsed time; and a step
\* only appends to the log: the entries already there stay as they are.
C16_LogComplete ==
    /\ [](/\ Len(audit_log) = Len(sent)
          /\ \A i \in 1..Len(audit_log) :
                /\ audit_log[i].attempt = i
                /\ "elapsed_ms" \in DOMAIN audit_log[i]
                /\ audit_log[i].elapsed_ms \in ElapsedMs)
    /\ [][/\ Len(audit_log') >= Len(audit_log)
          /\ SubSeq(audit_log', 1, Len(audit_log)) = audit_log]_vars

\* A log of three entries of three kinds' worth: two connection errors and a
\* card error.
C16_Witness ==
    /\ Len(audit_log) = 3
    /\ audit_log[1].status = "connection_error"
    /\ audit_log[3].status = "stripe_error"
    /\ audit_log[3].error = "CardError"

\* The jitter of the k-th wait: what was slept beyond base_delay * 2^(k-1).
JitterOf(k) == sleeps[k] - base_delay * Pow2(k - 1)

\* C21: the wait after a connection error on attempt k is
\* base_delay * 2^(k-1) plus a jitter between 0 and base_delay / 2, for every
\* base_delay, and each wait is strictly longer than the one before it.
C21_BackoffDelay ==
    \A k \in 1..Len(sleeps) :
        /\ JitterOf(k) >= 0
        /\ 2 * JitterOf(k) <= base_delay
        /\ k > 1 => sleeps[k] > sleeps[k - 1]

\* C25: an attempt is logged with status 'success' only when its request to
\* the ledger succeeded, and then the call does not return a failure result.
C25_FaithfulSuccess ==
    \A i \in 1..Len(audit_log) :
        audit_log[i].status = "success" =>
            /\ sent[i].error = ""
            /\ (r_pc = "done" => ~FailedResult(r_return[1]))

\* C26: whatever max_retries is, what retry_with_backoff returns is the pair
\* (result, audit_log).
C26_AlwaysPair ==
    r_pc = "done" => (IsPair(r_return) /\ r_return[2] = audit_log)

(***************************************************************************)
(* generate_composite_key                                                  *)
(***************************************************************************)
MaxFieldLen == 2

\* The characters identity fields are made of: a letter and the colon.
Chars == {"a", ":"}

RECURSIVE StringsUpTo(_)
StringsUpTo(n) ==
    IF n = 0 THEN {<<>>}
    ELSE StringsUpTo(n - 1) \cup
         {Append(w, c) : w \in {x \in StringsUpTo(n - 1) : Len(x) = n - 1}, c \in Chars}

Identities == StringsUpTo(MaxFieldLen) \X StringsUpTo(MaxFieldLen) \X StringsUpTo(MaxFieldLen)

\* f"{merchant_id}:{order_id}:{action}"
RawKey(merchant_id, order_id, action) ==
    merchant_id \o <<":">> \o order_id \o <<":">> \o action

\* str.encode(): the UTF-8 bytes of the string (one byte per ASCII character)
Utf8Byte(c) == IF c = ":" THEN 58 ELSE 97
Encode(str) == [i \in 1..Len(str) |-> Utf8Byte(str[i])]

\* hashlib.sha256(bytes).hexdigest()[:32]: the digest is taken as
\* collision-free, so the first 32 hex digits stand for the bytes digested.
Sha256Hex32(bytes) == [sha256_32 |-> bytes]

generate_composite_key(merchant_id, order_id, action) ==
    Sha256Hex32(Encode(RawKey(merchant_id, order_id, action)))

\* Two calls of generate_composite_key, one per identity.
DeriveKeys ==
    /\ key1 = None
    /\ key1' = generate_composite_key(id1[1], id1[2], id1[3])
    /\ key2' = generate_composite_key(id2[1], id2[2], id2[3])
    /\ UNCHANGED <<payVars, retryVars, id1, id2, bulkVars, deskVars>>

InitKey ==
    /\ DeskIdle
    /\ ledger = <<>>
    /\ idem = {}
    /\ epoch = [k \in Keys |-> 0]
    /\ calls = <<>>
    /\ RetryIdle
    /\ id1 \in Identities
    /\ id2 \in Identities
    /\ key1 = None
    /\ key2 = None
    /\ BulkIdle

NextKey == DeriveKeys

SpecKey == InitKey /\ [][NextKey]_vars

\* C5: generate_composite_key returns the same key for two identities if
\* and only if the identities are equal field by field.
C5_KeyInjective ==
    key1 # None => ((key1 = key2) <=> (id1 = id2))

(***************************************************************************)
(* Ticket 12: the ledger as the bulk refund script uses it                 *)
(***************************************************************************)
NumPayments == 3
MaxDryRuns == 2
MaxExternal == 1

PRODUCT_PRICE == 34900
WarrantyRefund == 5000

PIs == 1..NumPayments

\* A PaymentIntent of the product as the ledger may hold it when the script
\* starts: paid and not, partly or fully refunded; or not (yet) paid, with no
\* charge.
PaymentStates ==
    { [status |-> "succeeded", amount |-> PRODUCT_PRICE, has_charge |-> TRUE,
       amount_refunded |-> r] : r \in {0, WarrantyRefund, PRODUCT_PRICE} }
    \cup { [status |-> "processing", amount |-> PRODUCT_PRICE, has_charge |-> FALSE,
            amount_refunded |-> 0] }

\* The candidate lists: the payments' ids in the order they were created, or
\* in the reverse order, cut after any number of them (none included).
RECURSIVE Ascending(_)
Ascending(n) == IF n = 0 THEN <<>> ELSE Append(Ascending(n - 1), n)
Descending(n) == [i \in 1..n |-> NumPayments + 1 - i]
CandidateLists ==
    {Ascending(n) : n \in 0..NumPayments} \cup {Descending(n) : n \in 0..NumPayments}

\* The refunds the ledger already holds for payments refunded before the run.
RECURSIVE EarlierRefunds(_, _)
EarlierRefunds(pm, n) ==
    IF n = 0 THEN <<>>
    ELSE LET before == EarlierRefunds(pm, n - 1) IN
         IF pm[n].amount_refunded > 0
         THEN Append(before, [id |-> Len(before) + 1, payment_intent |-> n,
                              amount |-> pm[n].amount_refunded, recall |-> FALSE])
         ELSE before

\* stripe.Refund.create(payment_intent, amount) once it reaches the ledger:
\* refused unless the payment is paid and the amount is within what is left.
RefundAccepted(pi, amount) ==
    /\ pi.status = "succeeded"
    /\ pi.has_charge
    /\ amount > 0
    /\ amount <= pi.amount - pi.amount_refunded

\* What a refund request meets: the ledger answers, or the connection fails
\* before the request arrives or after the ledger has applied it.
RefundOutcomes == {"ok", "conn_before", "conn_after"}

\* What the ledger holds after a refund request, and what the caller gets.
StripeRefund(req, outcome) ==
    LET pi == payments[req.payment_intent]
        applied == [payments |-> [payments EXCEPT ![req.payment_intent].amount_refunded =
                                      @ + req.amount],
                    refunds |-> Append(refunds, [id |-> Len(refunds) + 1,
                                                 payment_intent |-> req.payment_intent,
                                                 amount |-> req.amount,
                                                 recall |-> req.recall])]
        same == [payments |-> payments, refunds |-> refunds]
        reached == outcome \in {"ok", "conn_after"}
        after == IF reached /\ RefundAccepted(pi, req.amount) THEN applied ELSE same
    IN  [raised |-> CASE outcome = "conn_before" -> "APIConnectionError"
                      [] outcome = "conn_after" -> "APIConnectionError"
                      [] OTHER -> IF RefundAccepted(pi, req.amount) THEN ""
                                  ELSE "InvalidRequestError",
         refund_id |-> Len(refunds) + 1,
         payments |-> after.payments,
         refunds |-> after.refunds]

\* Somebody else refunds part of a payment (a warranty claim) after the plan
\* was made and before execution starts.
ExternalRefund(p) ==
    /\ b_pc = "planned"
    /\ ext_count < MaxExternal
    /\ RefundAccepted(payments[p], WarrantyRefund)
    /\ payments' = [payments EXCEPT ![p].amount_refunded = @ + WarrantyRefund]
    /\ refunds' = Append(refunds, [id |-> Len(refunds) + 1, payment_intent |-> p,
                                   amount |-> WarrantyRefund, recall |-> FALSE])
    /\ ext_count' = ext_count + 1
    /\ UNCHANGED <<payVars, retryVars, keyVars, deskVars, rerunVars, pauses,
                   b_pc, test_pi_ids, d_i, eligible, skipped,
                   previews, total_preview, e_i, results, api_log, report>>

(***************************************************************************)
(* discover_eligible_payments                                              *)
(***************************************************************************)
\* The loop body with the first 'continue' missing.
discover_one_no_continue(el, sk, pi_id, pi) ==
    LET already_refunded == IF pi.has_charge THEN pi.amount_refunded ELSE 0
        refundable == pi.amount - already_refunded
        sk1 == IF pi.status # "succeeded"
               THEN Append(sk, [pi_id |-> pi_id,
                                reason |-> <<"Status is '", pi.status, "', not 'succeeded'">>])
               ELSE sk
    IN  IF refundable <= 0
        THEN [eligible |-> el,
              skipped |-> Append(sk1, [pi_id |-> pi_id,
                                       reason |-> <<"Already fully refunded">>])]
        ELSE [eligible |-> Append(el, [pi_id |-> pi_id, has_charge |-> pi.has_charge,
                                       amount |-> pi.amount,
                                       already_refunded |-> already_refunded,
                                       refundable |-> refundable]),
              skipped |-> sk1]

\* The loop body with 'refundable < 0' for 'refundable <= 0'.
discover_one_strict(el, sk, pi_id, pi) ==
    IF pi.status # "succeeded"
    THEN [eligible |-> el,
          skipped |-> Append(sk, [pi_id |-> pi_id,
                                  reason |-> <<"Status is '", pi.status, "', not 'succeeded'">>])]
    ELSE LET already_refunded == IF pi.has_charge THEN pi.amount_refunded ELSE 0
             refundable == pi.amount - already_refunded
         IN  IF refundable < 0
             THEN [eligible |-> el,
                   skipped |-> Append(sk, [pi_id |-> pi_id,
                                           reason |-> <<"Already fully refunded">>])]
             ELSE [eligible |-> Append(el, [pi_id |-> pi_id, has_charge |-> pi.has_charge,
                                            amount |-> pi.amount,
                                            already_refunded |-> already_refunded,
                                            refundable |-> refundable]),
                   skipped |-> sk]

\* The loop body for one candidate whose PaymentIntent was retrieved as pi:
\* the two lists after it. The entries' order_id, customer_email, description
\* and created are copied from the PaymentIntent and play no part later.
discover_one(el, sk, pi_id, pi) ==
    IF pi.status # "succeeded"
    THEN [eligible |-> el,
          skipped |-> Append(sk, [pi_id |-> pi_id,
                                  reason |-> <<"Status is '", pi.status, "', not 'succeeded'">>])]
    ELSE LET already_refunded == IF pi.has_charge THEN pi.amount_refunded ELSE 0
             refundable == pi.amount - already_refunded
         IN  IF refundable <= 0
             THEN [eligible |-> el,
                   skipped |-> Append(sk, [pi_id |-> pi_id,
                                           reason |-> <<"Already fully refunded">>])]
             ELSE [eligible |-> Append(el, [pi_id |-> pi_id, has_charge |-> pi.has_charge,
                                            amount |-> pi.amount,
                                            already_refunded |-> already_refunded,
                                            refundable |-> refundable]),
                   skipped |-> sk]

\* One iteration: retrieve the PaymentIntent, then route it. A retrieve that
\* raises is caught nowhere and ends the script.
DiscoverStep(outcome) ==
    /\ b_pc = "discover"
    /\ d_i <= Len(test_pi_ids)
    /\ LET pi_id == test_pi_ids[d_i]
           pi == payments[pi_id]
           next == discover_one(eligible, skipped, pi_id, pi)
       IN  /\ api_log' = Append(api_log, [op |-> "retrieve", payment_intent |-> pi_id,
                                          amount |-> 0, outcome |-> outcome, seen |-> pi])
           /\ IF outcome = "ok"
              THEN /\ eligible' = next.eligible
                   /\ skipped' = next.skipped
                   /\ d_i' = d_i + 1
                   /\ UNCHANGED b_pc
              ELSE /\ b_pc' = "aborted"
                   /\ UNCHANGED <<eligible, skipped, d_i>>
    /\ UNCHANGED <<payVars, retryVars, keyVars, deskVars, rerunVars, pauses,
                   payments, refunds, ext_count, test_pi_ids,
                   previews, total_preview, e_i, results, report>>

\* The loop is over (or test_pi_ids was empty): return eligible, skipped.
DiscoverReturn ==
    /\ b_pc = "discover"
    /\ d_i > Len(test_pi_ids)
    /\ b_pc' = "planned"
    /\ plans' = Append(plans, [eligible |-> eligible, skipped |-> skipped,
                               payments |-> payments])
    /\ UNCHANGED <<payVars, retryVars, keyVars, deskVars, payments, refunds, ext_count, test_pi_ids,
                   d_i, eligible, skipped, previews, total_preview, e_i, results, api_log,
                   report, runs, pauses>>

(***************************************************************************)
(* dry_run                                                                 *)
(***************************************************************************)
RECURSIVE SumField(_, _)
SumField(seq, f) ==
    IF seq = <<>> THEN 0 ELSE seq[1][f] + SumField(Tail(seq), f)

\* A preview that asks the ledger again for what is left on each payment.
dry_run_refreshing(el) ==
    LET fresh == [i \in 1..Len(el) |->
                    [el[i] EXCEPT !.already_refunded = payments[el[i].pi_id].amount_refunded,
                                  !.refundable = el[i].amount
                                        - payments[el[i].pi_id].amount_refunded]]
    IN  [total |-> SumField(fresh, "refundable"),
         eligible |-> fresh,
         requests |-> [i \in 1..Len(el) |->
                         [op |-> "retrieve", payment_intent |-> el[i].pi_id, amount |-> 0,
                          outcome |-> "ok", seen |-> payments[el[i].pi_id]]]]

\* dry_run(eligible): the total it returns, the list as the call leaves it
\* and the requests it sends to the ledger.
dry_run(el) ==
    [total |-> SumField(el, "refundable"),
     eligible |-> el,
     requests |-> <<>>]

DryRun ==
    /\ b_pc = "planned"
    /\ Len(previews) < MaxDryRuns
    /\ LET r == dry_run(eligible) IN
         /\ total_preview' = r.total
         /\ eligible' = r.eligible
         /\ api_log' = api_log \o r.requests
         /\ previews' = Append(previews, [total |-> r.total, shown |-> eligible])
    /\ UNCHANGED <<payVars, retryVars, keyVars, deskVars, rerunVars, pauses,
                   payments, refunds, ext_count, b_pc,
                   test_pi_ids, d_i, skipped, e_i, results, report>>

(***************************************************************************)
(* execute_bulk_refunds                                                    *)
(***************************************************************************)
\* A request for the fixed amount the warranty refund of create_test_payments
\* asks for, instead of what is left of the payment.
RefundRequestWarrantyAmount(payment) ==
    [payment_intent |-> payment.pi_id,
     amount |-> WarrantyRefund,
     reason |-> "fraudulent",
     recall |-> TRUE,
     refund_type |-> IF payment.already_refunded = 0 THEN "full" ELSE "partial_remainder",
     idempotency_key |-> NoKey]

\* A request for the payment's whole amount instead of what is left of it.
RefundRequestFullAmount(payment) ==
    [payment_intent |-> payment.pi_id,
     amount |-> payment.amount,
     reason |-> "fraudulent",
     recall |-> TRUE,
     refund_type |-> IF payment.already_refunded = 0 THEN "full" ELSE "partial_remainder",
     idempotency_key |-> NoKey]

\* The arguments of stripe.Refund.create for one payment of the list; the
\* metadata carries the recall reference, and no idempotency key is passed.
RefundRequest(payment) ==
    [payment_intent |-> payment.pi_id,
     amount |-> payment.refundable,
     reason |-> "fraudulent",
     recall |-> TRUE,
     refund_type |-> IF payment.already_refunded = 0 THEN "full" ELSE "partial_remainder",
     idempotency_key |-> NoKey]

Executing == (b_pc = "planned" /\ previews # <<>>) \/ b_pc = "executing"

\* An except clause that gives up on the rest of the list.
AfterItemStopOnError(i, raised, n) == IF raised = "" THEN i + 1 ELSE n + 1

\* for i, payment in enumerate(eligible, 1): item i + 1 follows item i,
\* whatever item i raised; both except clauses fall through to the next
\* iteration.
AfterItem(i, raised, n) == i + 1

\* The handlers with 'pass' in the 'except StripeError' clause.
RecordOutcomeNoGenericClause(res, payment, raised, refund_id) ==
    IF raised = ""
    THEN [res EXCEPT !.succeeded =
              Append(@, [pi_id |-> payment.pi_id, refund_id |-> refund_id,
                         amount |-> payment.refundable,
                         type |-> IF payment.already_refunded = 0
                                  THEN "FULL" ELSE "PARTIAL",
                         status |-> "succeeded"])]
    ELSE IF raised = "InvalidRequestError"
    THEN [res EXCEPT !.failed = Append(@, [pi_id |-> payment.pi_id, error |-> raised])]
    ELSE res

\* results after one item: an entry in 'succeeded' when Refund.create
\* returned, an entry in 'failed' from either except clause.
RecordOutcome(res, payment, raised, refund_id) ==
    IF raised = ""
    THEN [res EXCEPT !.succeeded =
              Append(@, [pi_id |-> payment.pi_id, refund_id |-> refund_id,
                         amount |-> payment.refundable,
                         type |-> IF payment.already_refunded = 0
                                  THEN "FULL" ELSE "PARTIAL",
                         status |-> "succeeded"])]
    ELSE [res EXCEPT !.failed = Append(@, [pi_id |-> payment.pi_id, error |-> raised])]

\* if i % 20 == 0: time.sleep(1), the last statement of the try block: it is
\* reached only when Refund.create returned.
PauseEvery == 20
PauseAfter(i, raised) == raised = "" /\ i % PauseEvery = 0

\* One iteration of the loop over enumerate(eligible, 1).
ExecuteStep(outcome) ==
    /\ Executing
    /\ e_i <= Len(eligible)
    /\ LET payment == eligible[e_i]
           req == RefundRequest(payment)
           r == StripeRefund(req, outcome)
       IN  /\ payments' = r.payments
           /\ refunds' = r.refunds
           /\ api_log' = Append(api_log, [op |-> "refund",
                                          payment_intent |-> req.payment_intent,
                                          amount |-> req.amount, outcome |-> outcome,
                                          seen |-> payments[req.payment_intent],
                                          idempotency_key |-> req.idempotency_key])
           /\ results' = RecordOutcome(results, payment, r.raised, r.refund_id)
           /\ pauses' = IF PauseAfter(e_i, r.raised) THEN Append(pauses, e_i) ELSE pauses
           /\ e_i' = AfterItem(e_i, r.raised, Len(eligible))
    /\ b_pc' = "executing"
    /\ UNCHANGED <<payVars, retryVars, keyVars, deskVars, rerunVars,
                   ext_count, test_pi_ids, d_i, eligible,
                   skipped, previews, total_preview, report>>

ExecuteReturn ==
    /\ Executing
    /\ e_i > Len(eligible)
    /\ b_pc' = "executed"
    /\ UNCHANGED <<payVars, retryVars, keyVars, deskVars, rerunVars, pauses,
                   payments, refunds, ext_count, test_pi_ids,
                   d_i, eligible, skipped, previews, total_preview, e_i, results, api_log,
                   report>>

(***************************************************************************)
(* generate_compliance_report                                              *)
(***************************************************************************)
\* The report without its 'Failed refunds' section.
generate_compliance_report_no_failed_section(res, el, sk, preview) ==
    LET succeeded == res.succeeded
        failed == res.failed
        total_refunded == SumField(succeeded, "amount")
    IN  [refunds_succeeded |-> Len(succeeded),
         refunds_failed |-> Len(failed),
         payments_skipped |-> Len(sk),
         total_refunded |-> total_refunded,
         expected_total |-> preview,
         verification |-> IF total_refunded = preview THEN "MATCH" ELSE "MISMATCH",
         refund_log |-> succeeded,
         failed_listed |-> <<>>,
         skipped_listed |-> IF sk # <<>> THEN sk ELSE <<>>]

\* What the report shows: the counts, the totals, the verification line, and
\* the three detail listings (the failed and skipped ones under 'if failed:'
\* and 'if skipped:').
generate_compliance_report(res, el, sk, preview) ==
    LET succeeded == res.succeeded
        failed == res.failed
        total_refunded == SumField(succeeded, "amount")
    IN  [refunds_succeeded |-> Len(succeeded),
         refunds_failed |-> Len(failed),
         payments_skipped |-> Len(sk),
         total_refunded |-> total_refunded,
         expected_total |-> preview,
         verification |-> IF total_refunded = preview THEN "MATCH" ELSE "MISMATCH",
         refund_log |-> succeeded,
         failed_listed |-> IF failed # <<>> THEN failed ELSE <<>>,
         skipped_listed |-> IF sk # <<>> THEN sk ELSE <<>>]

Report ==
    /\ b_pc = "executed"
    /\ report' = generate_compliance_report(results, eligible, skipped, total_preview)
    /\ b_pc' = "reported"
    /\ UNCHANGED <<payVars, retryVars, keyVars, deskVars, rerunVars, pauses,
                   payments, refunds, ext_count, test_pi_ids,
                   d_i, eligible, skipped, previews, total_preview, e_i, results, api_log>>


InitBulk ==
    /\ DeskIdle
    /\ ledger = <<>>
    /\ idem = {}
    /\ epoch = [k \in Keys |-> 0]
    /\ calls = <<>>
    /\ RetryIdle
    /\ KeyIdle
    /\ payments \in [PIs -> PaymentStates]
    /\ refunds = EarlierRefunds(payments, NumPayments)
    /\ ext_count = 0
    /\ b_pc = "discover"
    /\ test_pi_ids \in CandidateLists
    /\ d_i = 1
    /\ eligible = <<>>
    /\ skipped = <<>>
    /\ previews = <<>>
    /\ total_preview = 0
    /\ e_i = 1
    /\ results = [succeeded |-> <<>>, failed |-> <<>>]
    /\ api_log = <<>>
    /\ report = None
    /\ pauses = <<>>
    /\ plans = <<>>
    /\ runs = 0

NextBulk ==
    \/ \E o \in {"ok", "conn_before"} : DiscoverStep(o)
    \/ DiscoverReturn
    \/ DryRun
    \/ \E o \in RefundOutcomes : ExecuteStep(o)
    \/ ExecuteReturn
    \/ Report
    \/ \E p \in PIs : ExternalRefund(p)

SpecBulk == InitBulk /\ [][NextBulk]_vars

(***************************************************************************)
(* Planning and execution started again: discover_eligible_payments called *)
(* a second time on the same candidates, execute_bulk_refunds called again *)
(* on the plan it already ran, the script run again after a run.           *)
(***************************************************************************)
MaxReruns == 1

\* The two lists carried over from the call before.
StartListsKept(el, sk) == [eligible |-> el, skipped |-> sk]

\* eligible = [] and skipped = [] at the top of discover_eligible_payments,
\* whatever lists (el, sk) an earlier call returned.
StartLists(el, sk) == [eligible |-> <<>>, skipped |-> <<>>]

\* discover_eligible_payments(test_pi_ids) is called again: straight after a
\* call of it, or by a new run of the script after an execution.
Replan ==
    /\ b_pc \in {"planned", "executed", "reported"}
    /\ runs < MaxReruns
    /\ runs' = runs + 1
    /\ b_pc' = "discover"
    /\ d_i' = 1
    /\ eligible' = StartLists(eligible, skipped).eligible
    /\ skipped' = StartLists(eligible, skipped).skipped
    /\ previews' = <<>>
    /\ total_preview' = 0
    /\ e_i' = 1
    /\ results' = [succeeded |-> <<>>, failed |-> <<>>]
    /\ report' = None
    /\ UNCHANGED <<payVars, retryVars, keyVars, deskVars, payments, refunds, ext_count, test_pi_ids,
                   api_log, plans, pauses>>

\* execute_bulk_refunds(eligible) is called again on the plan it already ran.
ReExecute ==
    /\ b_pc \in {"executed", "reported"}
    /\ runs < MaxReruns
    /\ runs' = runs + 1
    /\ b_pc' = "planned"
    /\ e_i' = 1
    /\ results' = [succeeded |-> <<>>, failed |-> <<>>]
    /\ report' = None
    /\ UNCHANGED <<payVars, retryVars, keyVars, deskVars, payments, refunds, ext_count, test_pi_ids,
                   d_i, eligible, skipped, previews, total_preview, api_log, plans,
                   pauses>>

\* The candidates of these runs: one payment, or two in either order; the
\* payments that are not candidates are paid and unrefunded.
RerunCandidates == {<<1>>, <<1, 2>>, <<2, 1>>}
IsCandidate(p) == \E i \in 1..Len(test_pi_ids) : test_pi_ids[i] = p

InitRerun ==
    /\ DeskIdle
    /\ ledger = <<>>
    /\ idem = {}
    /\ epoch = [k \in Keys |-> 0]
    /\ calls = <<>>
    /\ RetryIdle
    /\ KeyIdle
    /\ test_pi_ids \in RerunCandidates
    /\ payments \in [PIs -> PaymentStates]
    /\ \A p \in PIs : ~IsCandidate(p) =>
          payments[p] = [status |-> "succeeded", amount |-> PRODUCT_PRICE,
                         has_charge |-> TRUE, amount_refunded |-> 0]
    /\ refunds = EarlierRefunds(payments, NumPayments)
    /\ ext_count = 0
    /\ b_pc = "discover"
    /\ d_i = 1
    /\ eligible = <<>>
    /\ skipped = <<>>
    /\ previews = <<>>
    /\ total_preview = 0
    /\ e_i = 1
    /\ results = [succeeded |-> <<>>, failed |-> <<>>]
    /\ api_log = <<>>
    /\ report = None
    /\ pauses = <<>>
    /\ plans = <<>>
    /\ runs = 0

NextRerun ==
    \/ DiscoverStep("ok")
    \/ DiscoverReturn
    \/ (previews = <<>> /\ DryRun)
    \/ \E o \in RefundOutcomes : ExecuteStep(o)
    \/ ExecuteReturn
    \/ Report
    \/ \E p \in PIs : IsCandidate(p) /\ ExternalRefund(p)
    \/ Replan
    \/ ReExecute

SpecRerun == InitRerun /\ [][NextRerun]_vars

\* C18: two calls of discover_eligible_payments on the same candidates that
\* found the ledger's payments in the same state returned the same eligible
\* list and the same skip list: same targets, amounts, order and reasons.
C18_PlanningIdempotent ==
    \A i, j \in 1..Len(plans) :
        plans[i].payments = plans[j].payments =>
            /\ plans[i].eligible = plans[j].eligible
            /\ plans[i].skipped = plans[j].skipped

\* Two plans of two candidates made on an unchanged ledger, with a target
\* and a skipped payment in them.
C18_Witness ==
    /\ Len(plans) >= 2
    /\ plans[1].payments = plans[2].payments
    /\ plans[2].eligible # <<>>
    /\ plans[2].skipped # <<>>
    /\ b_pc = "planned"

\* The recall refunds the ledger holds for a payment.
RecallRefunds(p) == {i \in 1..Len(refunds) : /\ refunds[i].payment_intent = p
                                             /\ refunds[i].recall}

PauseTargets == 2 * PauseEvery + 1

InitPause ==
    /\ DeskIdle
    /\ ledger = <<>>
    /\ idem = {}
    /\ epoch = [k \in Keys |-> 0]
    /\ calls = <<>>
    /\ RetryIdle
    /\ KeyIdle
    /\ test_pi_ids = Ascending(PauseTargets)
    /\ payments = [p \in 1..PauseTargets |->
                     [status |-> "succeeded", amount |-> PRODUCT_PRICE,
                      has_charge |-> TRUE, amount_refunded |-> 0]]
    /\ refunds = <<>>
    /\ ext_count = 0
    /\ b_pc = "discover"
    /\ d_i = 1
    /\ eligible = <<>>
    /\ skipped = <<>>
    /\ previews = <<>>
    /\ total_preview = 0
    /\ e_i = 1
    /\ results = [succeeded |-> <<>>, failed |-> <<>>]
    /\ api_log = <<>>
    /\ report = None
    /\ pauses = <<>>
    /\ plans = <<>>
    /\ runs = 0

NextPause ==
    \/ DiscoverStep("ok")
    \/ DiscoverReturn
    \/ (previews = <<>> /\ DryRun)
    \/ \E o \in RefundOutcomes : (o = "ok" \/ results.failed = <<>>) /\ ExecuteStep(o)
    \/ ExecuteReturn
    \/ Report

SpecPause == InitPause /\ [][NextPause]_vars

\* The items execution has submitted so far.
Submitted == 1..(e_i - 1)
PausedAfter(i) == \E k \in 1..Len(pauses) : pauses[k] = i

\* C23: during execution a pause was taken after a submitted item exactly
\* when the item's number is a multiple of 20, whether the item succeeded
\* or failed.
C23_RateLimitPause ==
    b_pc \in {"executing", "executed", "reported"} =>
        \A i \in Submitted : PausedAfter(i) <=> (i % PauseEvery = 0)

(***************************************************************************)
(* Claims about the bulk refund run (checked under SpecBulk)               *)
(***************************************************************************)
\* The candidates looked at so far; the k-th request of the run is the
\* retrieve of the k-th of them, and 'seen' is the PaymentIntent it returned.
Looked == 1..(d_i - 1)
InEligible(id) == {i \in 1..Len(eligible) : eligible[i].pi_id = id}
InSkipped(id) == {i \in 1..Len(skipped) : skipped[i].pi_id = id}
Position(id) == CHOOSE p \in 1..Len(test_pi_ids) : test_pi_ids[p] = id
Left(pi) == pi.amount - pi.amount_refunded

IsRefund(entry) == entry.op = "refund"
RefundRequests == SelectSeq(api_log, IsRefund)

\* The refundable amount the plan holds for a payment.
Planned(id) == eligible[CHOOSE i \in InEligible(id) : TRUE].refundable

RECURSIVE FailedAmount(_)
FailedAmount(failed) ==
    IF failed = <<>> THEN 0 ELSE Planned(failed[1].pi_id) + FailedAmount(Tail(failed))

\* C4: the report's verification line says MATCH exactly when the planned
\* total equals the refunded total plus the amounts of the failed refunds.
C4_Reconciliation ==
    report # None =>
        ( report.verification = "MATCH"
          <=> report.expected_total
                = report.total_refunded + FailedAmount(results.failed) )

\* C7: every candidate looked at is in exactly one of the two lists: skipped
\* with a reason naming its status when the status is not 'succeeded',
\* skipped as already fully refunded when nothing is left, eligible
\* otherwise; nothing else is listed, and the eligible list keeps the order
\* of the candidates.
C7_PlannerRouting ==
    b_pc # "idle" =>
        /\ \A p \in Looked :
              LET id == test_pi_ids[p]
                  pi == api_log[p].seen
              IN  /\ Cardinality(InEligible(id)) + Cardinality(InSkipped(id)) = 1
                  /\ pi.status # "succeeded" =>
                        \E i \in InSkipped(id) :
                            skipped[i].reason = <<"Status is '", pi.status, "', not 'succeeded'">>
                  /\ (pi.status = "succeeded" /\ Left(pi) <= 0) =>
                        \E i \in InSkipped(id) :
                            skipped[i].reason = <<"Already fully refunded">>
                  /\ (pi.status = "succeeded" /\ Left(pi) > 0) => InEligible(id) # {}
        /\ Len(eligible) + Len(skipped) = Cardinality(Looked)
        /\ \A i, j \in 1..Len(eligible) :
              i < j => Position(eligible[i].pi_id) < Position(eligible[j].pi_id)

\* A finished plan with a target and both kinds of skipped candidate, from
\* candidates given in another order than their ids.
C7_Witness ==
    /\ b_pc = "planned"
    /\ Len(test_pi_ids) = 3
    /\ test_pi_ids[1] > test_pi_ids[2]
    /\ Len(eligible) = 1
    /\ \E i, j \in 1..Len(skipped) :
          /\ skipped[i].reason = <<"Already fully refunded">>
          /\ skipped[j].reason = <<"Status is '", "processing", "', not 'succeeded'">>

\* C8: every target of the plan has refundable = amount - already_refunded,
\* and refundable is strictly positive.
C8_EligibleTargets ==
    \A i \in 1..Len(eligible) :
        /\ eligible[i].refundable = eligible[i].amount - eligible[i].already_refunded
        /\ eligible[i].refundable > 0

\* A plan holding a partly refunded payment, beside a skipped fully
\* refunded one.
C8_Witness ==
    /\ b_pc = "planned"
    /\ \E i \in 1..Len(eligible) :
          /\ eligible[i].already_refunded = WarrantyRefund
          /\ eligible[i].refundable = PRODUCT_PRICE - WarrantyRefund
    /\ \E j \in 1..Len(skipped) : skipped[j].reason = <<"Already fully refunded">>

\* C9: a call of dry_run leaves the plan as it was, sends nothing to the
\* ledger, leaves the ledger's payments and refunds alone, and returns the
\* total the call before it returned.
C9_PreviewPure ==
    [][ Len(previews') > Len(previews) =>
            /\ eligible' = eligible
            /\ skipped' = skipped
            /\ api_log' = api_log
            /\ payments' = payments
            /\ refunds' = refunds
            /\ previews # <<>> =>
                  previews'[Len(previews')].total = previews[Len(previews)].total ]_vars

\* Two previews of a plan with targets, the ledger having changed meanwhile.
C9_Witness ==
    /\ Len(previews) >= 2
    /\ eligible # <<>>
    /\ ext_count >= 1
    /\ previews[1].total = previews[2].total
    /\ previews[1].total > 0

\* The plan the last dry run showed.
Shown == previews[Len(previews)].shown

\* C10: the refund requests execution sends are, in order, for the targets
\* and amounts the last dry run showed, and once execution is over their
\* amounts add up to the total the dry run returned, whatever happened on
\* the ledger in between.
C10_ExecuteAsPreviewed ==
    b_pc \in {"executing", "executed", "reported"} =>
        /\ Len(RefundRequests) <= Len(Shown)
        /\ \A i \in 1..Len(RefundRequests) :
              /\ RefundRequests[i].payment_intent = Shown[i].pi_id
              /\ RefundRequests[i].amount = Shown[i].refundable
        /\ b_pc \in {"executed", "reported"} =>
              /\ Len(RefundRequests) = Len(Shown)
              /\ SumField(RefundRequests, "amount") = total_preview

\* An execution that ended after somebody else's refund landed, between
\* the preview and the request, on a payment of the plan.
C10_Witness ==
    /\ b_pc = "executed"
    /\ Len(RefundRequests) >= 2
    /\ \E i \in 1..Len(RefundRequests) :
          RefundRequests[i].seen.amount_refunded # Shown[i].already_refunded

\* The refund requests sent for one payment.
RefundRequestsFor(id) == {k \in 1..Len(api_log) : /\ api_log[k].op = "refund"
                                                  /\ api_log[k].payment_intent = id}

\* C14: a refund recorded as failed with a connection error was requested
\* more than once before it was recorded; one recorded as failed with a
\* request the ledger refused was requested exactly once.
C14_BatchErrorPropagation ==
    \A i \in 1..Len(results.failed) :
        LET f == results.failed[i] IN
        /\ f.error = "APIConnectionError" => Cardinality(RefundRequestsFor(f.pi_id)) > 1
        /\ f.error = "InvalidRequestError" => Cardinality(RefundRequestsFor(f.pi_id)) = 1

\* C17: the report lists every entry of the failed list with its error and
\* every entry of the skip list with its reason, in their order; a run with
\* a failed refund reports a failed count above zero and a non-empty failed
\* listing.
C17_ReportListsFailures ==
    report # None =>
        /\ report.failed_listed = results.failed
        /\ report.skipped_listed = skipped
        /\ report.refunds_failed = Len(results.failed)
        /\ report.payments_skipped = Len(skipped)
        /\ \A i \in 1..Len(report.failed_listed) : report.failed_listed[i].error # ""
        /\ \A i \in 1..Len(report.skipped_listed) : report.skipped_listed[i].reason # <<>>
        /\ results.failed # <<>> =>
              (report.refunds_failed > 0 /\ report.failed_listed # <<>>)

\* A report of a run with a failed refund of each kind and a skipped payment.
C17_Witness ==
    /\ b_pc = "reported"
    /\ skipped # <<>>
    /\ \E i \in 1..Len(report.failed_listed) :
          report.failed_listed[i].error = "APIConnectionError"
    /\ \E i \in 1..Len(report.failed_listed) :
          report.failed_listed[i].error = "InvalidRequestError"

\* C19: every request that creates a refund carries an idempotency key.
C19_EveryCreateKeyed ==
    \A i \in 1..Len(api_log) :
        api_log[i].op = "refund" => api_log[i].idempotency_key # NoKey

\* C22: execution sends one refund request per target of the plan, in plan
\* order: after k items the refund requests sent are those for targets
\* 1..k, no target has two requests, and when execution is over every target
\* has its request, whatever the earlier items' outcomes were.
C22_SequentialSubmission ==
    b_pc \in {"executing", "executed", "reported"} =>
        /\ Len(RefundRequests) = e_i - 1
        /\ Len(RefundRequests) <= Len(eligible)
        /\ \A i \in 1..Len(RefundRequests) :
              /\ RefundRequests[i].payment_intent = eligible[i].pi_id
              /\ Cardinality(RefundRequestsFor(eligible[i].pi_id)) = 1
        /\ b_pc \in {"executed", "reported"} => Len(RefundRequests) = Len(eligible)

\* Three targets, the first one failed, the two after it still submitted.
C22_Witness ==
    /\ b_pc = "executed"
    /\ Len(eligible) = 3
    /\ Len(RefundRequests) = 3
    /\ RefundRequests[1].outcome = "conn_before"
    /\ RefundRequests[3].outcome = "ok"

InSucceeded(id) == {i \in 1..Len(results.succeeded) : results.succeeded[i].pi_id = id}
InFailed(id) == {i \in 1..Len(results.failed) : results.failed[i].pi_id = id}

\* C24: once execute_bulk_refunds has returned, every target of the plan is
\* in exactly one of the succeeded and failed lists, the two lists together
\* are as long as the plan, every succeeded entry is a target and carries the
\* target's planned refundable amount, and the report's two counts add up to
\* the number of targets.
C24_OutcomePartition ==
    b_pc \in {"executed", "reported"} =>
        /\ \A i \in 1..Len(eligible) :
              Cardinality(InSucceeded(eligible[i].pi_id))
                + Cardinality(InFailed(eligible[i].pi_id)) = 1
        /\ Len(results.succeeded) + Len(results.failed) = Len(eligible)
        /\ \A i \in 1..Len(results.succeeded) :
              /\ InEligible(results.succeeded[i].pi_id) # {}
              /\ results.succeeded[i].amount = Planned(results.succeeded[i].pi_id)
        /\ report # None =>
              report.refunds_succeeded + report.refunds_failed = Len(eligible)

\* A reported run with a refunded partial target, a refused one and one lost
\* to a connection error.
C24_Witness ==
    /\ b_pc = "reported"
    /\ \E i \in 1..Len(results.succeeded) : results.succeeded[i].type = "PARTIAL"
    /\ \E i \in 1..Len(results.failed) : results.failed[i].error = "InvalidRequestError"
    /\ \E i \in 1..Len(results.failed) : results.failed[i].error = "APIConnectionError"

(***************************************************************************)
(* Ticket 06: classification of a failed invoice and the retry decision    *)
(***************************************************************************)
MaxRetryCount == 4

\* The keys of the three tables.
TEMPORARY_FAILURES == {"try_again", "processing_error", "rate_limited"}
PERMANENT_FAILURES == {"card_declined", "insufficient_funds", "lost_card", "stolen_card",
                       "expired_card", "incorrect_cvc", "do_not_honor"}
REQUIRES_ACTION == {"action_required", "authentication_required"}

\* The keys of the report's breakdown dict.
BreakdownKeys == {"TEMPORARY", "PERMANENT", "ACTION_REQUIRED", "UNKNOWN"}

\* What last_finalization_error may be: None, an empty dict, or a dict whose
\* 'code' and 'type' are a code of one of the tables, another string, or
\* missing ("" here: None and "" are both false for 'or').
EmptyDict == [object |-> "dict"]
ErrorCodes == TEMPORARY_FAILURES \cup PERMANENT_FAILURES \cup REQUIRES_ACTION
                \cup {"", "invoice_no_payment_method"}
ErrorTypes == {"", "card_error", "api_error", "try_again", "card_declined",
               "authentication_required"}
InvoiceErrors == {None, EmptyDict} \cup [code : ErrorCodes, type : ErrorTypes]

\* classify_failure with PERMANENT as the answer of the final else.
classify_failure_default_permanent(error) ==
    IF error = None \/ error = EmptyDict
    THEN [category |-> "UNKNOWN", code |-> "no_error"]
    ELSE LET code == IF error.code # "" THEN error.code ELSE error.type IN
         IF code \in TEMPORARY_FAILURES THEN [category |-> "TEMPORARY", code |-> code]
         ELSE IF code \in PERMANENT_FAILURES THEN [category |-> "PERMANENT", code |-> code]
         ELSE IF code \in REQUIRES_ACTION
         THEN [category |-> "ACTION_REQUIRED", code |-> code]
         ELSE [category |-> "PERMANENT", code |-> code]

\* classify_failure(invoice), given invoice.last_finalization_error.
classify_failure(error) ==
    IF error = None \/ error = EmptyDict
    THEN [category |-> "UNKNOWN", code |-> "no_error"]
    ELSE LET code == IF error.code # "" THEN error.code ELSE error.type IN
         IF code \in TEMPORARY_FAILURES THEN [category |-> "TEMPORARY", code |-> code]
         ELSE IF code \in PERMANENT_FAILURES THEN [category |-> "PERMANENT", code |-> code]
         ELSE IF code \in REQUIRES_ACTION
         THEN [category |-> "ACTION_REQUIRED", code |-> code]
         ELSE [category |-> "UNKNOWN", code |-> code]

\* should_retry with 'retry_count <= 3' for the temporary failures.
should_retry_off_by_one(category, count) ==
    IF category = "TEMPORARY" THEN count <= 3
    ELSE IF category = "ACTION_REQUIRED" THEN FALSE
    ELSE IF category = "PERMANENT" THEN FALSE
    ELSE count < 1

should_retry(category, count) ==
    IF category = "TEMPORARY" THEN count < 3
    ELSE IF category = "ACTION_REQUIRED" THEN FALSE
    ELSE IF category = "PERMANENT" THEN FALSE
    ELSE count < 1

\* category, code = classify_failure(inv); breakdown[category].append(...)
Classify ==
    /\ i_pc = "failed"
    /\ inv_class' = classify_failure(inv_error)
    /\ breakdown' = [k \in DOMAIN breakdown |->
                        IF k = inv_class'.category
                        THEN Append(breakdown[k], inv_class'.code) ELSE breakdown[k]]
    /\ i_pc' = "classified"
    /\ UNCHANGED <<inv_error, retry_count, asked>>
    /\ UNCHANGED <<payVars, retryVars, keyVars, bulkVars, hookVars, fxVars>>

\* The retry policy applied to the classified invoice: ask should_retry with
\* the retries made so far; retry_invoice when it says yes, and count the
\* retry when the invoice is still unpaid.
RetryStep(paid) ==
    /\ i_pc = "classified"
    /\ LET answer == should_retry(inv_class.category, retry_count) IN
         /\ asked' = [category |-> inv_class.category, retry_count |-> retry_count,
                      answer |-> answer]
         /\ IF ~answer THEN i_pc' = "stopped" /\ UNCHANGED retry_count
            ELSE /\ retry_count' = retry_count + 1
                 /\ i_pc' = IF paid THEN "paid" ELSE "classified"
    /\ UNCHANGED <<inv_error, inv_class, breakdown>>
    /\ UNCHANGED <<payVars, retryVars, keyVars, bulkVars, hookVars, fxVars>>

\* should_retry called on its own, with any category string and count.
ShouldRetryCall(category, count) ==
    /\ i_pc \in {"stopped", "paid"}
    /\ asked' = [category |-> category, retry_count |-> count,
                 answer |-> should_retry(category, count)]
    /\ i_pc' = "asked"
    /\ UNCHANGED <<inv_error, inv_class, breakdown, retry_count>>
    /\ UNCHANGED <<payVars, retryVars, keyVars, bulkVars, hookVars, fxVars>>

InitInvoice ==
    /\ ledger = <<>>
    /\ idem = {}
    /\ epoch = [k \in Keys |-> 0]
    /\ calls = <<>>
    /\ RetryIdle
    /\ KeyIdle
    /\ BulkIdle
    /\ HookIdle
    /\ FxIdle
    /\ inv_error \in InvoiceErrors
    /\ inv_class = None
    /\ breakdown = [k \in BreakdownKeys |-> <<>>]
    /\ retry_count = 0
    /\ asked = None
    /\ i_pc = "failed"

NextInvoice ==
    \/ Classify
    \/ \E paid \in BOOLEAN : RetryStep(paid)
    \/ \E c \in BreakdownKeys \cup {"", "temporary"}, n \in 0..MaxRetryCount :
          ShouldRetryCall(c, n)

SpecInvoice == InitInvoice /\ [][NextInvoice]_vars

\* C27: should_retry answers no for PERMANENT and ACTION_REQUIRED whatever
\* the count, yes for TEMPORARY exactly when the count is below 3, and for
\* any other category exactly when the count is below 1; and the retries
\* made for an invoice under this policy never pass 3.
C27_RetryPolicyBounded ==
    /\ asked # None =>
          /\ asked.category \in {"PERMANENT", "ACTION_REQUIRED"} => ~asked.answer
          /\ asked.category = "TEMPORARY" => (asked.answer <=> asked.retry_count < 3)
          /\ asked.category \notin {"PERMANENT", "ACTION_REQUIRED", "TEMPORARY"} =>
                (asked.answer <=> asked.retry_count < 1)
    /\ retry_count <= 3

\* A temporary failure retried three times and then refused a fourth retry.
C27_Witness ==
    /\ i_pc = "stopped"
    /\ retry_count = 3
    /\ asked.category = "TEMPORARY"
    /\ asked.retry_count = 3
    /\ ~asked.answer

\* The code classify_failure looks up: 'code', or 'type' when 'code' is
\* missing.
LookedUp(error) == IF error.code # "" THEN error.code ELSE error.type

\* C28: the three tables are pairwise disjoint; every invoice is classified
\* as one of TEMPORARY, PERMANENT, ACTION_REQUIRED, UNKNOWN, which is a key of
\* the breakdown; the category is the table that holds the code, UNKNOWN when
\* no table holds it or the invoice has no error.
C28_ClassificationTotal ==
    /\ TEMPORARY_FAILURES \cap PERMANENT_FAILURES = {}
    /\ TEMPORARY_FAILURES \cap REQUIRES_ACTION = {}
    /\ PERMANENT_FAILURES \cap REQUIRES_ACTION = {}
    /\ inv_class # None =>
          /\ inv_class.category \in {"TEMPORARY", "PERMANENT", "ACTION_REQUIRED", "UNKNOWN"}
          /\ inv_class.category \in DOMAIN breakdown
          /\ Len(breakdown[inv_class.category]) = 1
          /\ IF inv_error = None \/ inv_error = EmptyDict
             THEN inv_class.category = "UNKNOWN"
             ELSE /\ inv_class.category = "TEMPORARY"
                        <=> LookedUp(inv_error) \in TEMPORARY_FAILURES
                  /\ inv_class.category = "PERMANENT"
                        <=> LookedUp(inv_error) \in PERMANENT_FAILURES
                  /\ inv_class.category = "ACTION_REQUIRED"
                        <=> LookedUp(inv_error) \in REQUIRES_ACTION
                  /\ inv_class.category = "UNKNOWN"
                        <=> LookedUp(inv_error) \notin (TEMPORARY_FAILURES
                                \cup PERMANENT_FAILURES \cup REQUIRES_ACTION)

\* An invoice whose code is in no table, filed under UNKNOWN.
C28_Witness ==
    /\ i_pc = "classified"
    /\ inv_error \notin {None, EmptyDict}
    /\ inv_error.code = "invoice_no_payment_method"
    /\ inv_class.category = "UNKNOWN"
    /\ breakdown["UNKNOWN"] = <<"invoice_no_payment_method">>

(***************************************************************************)
(* Ticket 02: the webhook endpoint                                         *)
(***************************************************************************)
MaxRequests == 2

\* The Stripe-Signature header of a request: a signature of the payload made
\* with the endpoint's secret, anything else, or no header at all.
Signatures == {"valid", "invalid", "missing"}
\* The event types with a handler, and one without.
EventTypes == {"payment_intent.succeeded", "payment_intent.payment_failed",
               "charge.dispute.created", "customer.created"}
Requests == [sig : Signatures, type : EventTypes]

\* A verification that lets a request without the header through.
construct_event_skipping_missing(req) ==
    IF req.sig = "invalid"
    THEN [raised |-> "SignatureVerificationError", event |-> None]
    ELSE [raised |-> "", event |-> [type |-> req.type]]

\* stripe.Webhook.construct_event(payload, sig_header, WEBHOOK_SECRET): the
\* event, or SignatureVerificationError for a header that is missing or does
\* not sign the payload.
construct_event(req) ==
    IF req.sig = "valid"
    THEN [raised |-> "", event |-> [type |-> req.type]]
    ELSE [raised |-> "SignatureVerificationError", event |-> None]

\* handlers.get(event_type): the handler's name, or "" for None.
handlers(event_type) ==
    CASE event_type = "payment_intent.succeeded" -> "handle_payment_succeeded"
      [] event_type = "payment_intent.payment_failed" -> "handle_payment_failed"
      [] event_type = "charge.dispute.created" -> "handle_dispute_created"
      [] OTHER -> ""

\* A POST to /webhook arrives.
Receive(req) ==
    /\ w_pc \in {"listening"}
    /\ Len(w_log) < MaxRequests
    /\ w_req' = req
    /\ w_event' = None
    /\ w_handled' = <<>>
    /\ w_pc' = "verify"
    /\ UNCHANGED w_log
    /\ UNCHANGED <<payVars, retryVars, keyVars, bulkVars, invoiceVars, fxVars>>

\* Step 1: construct_event; a signature error is answered with 400.
Verify ==
    /\ w_pc = "verify"
    /\ LET c == construct_event(w_req) IN
         IF c.raised # ""
         THEN /\ w_log' = Append(w_log, [req |-> w_req, status |-> 400,
                                         handled |-> w_handled])
              /\ w_pc' = "listening"
              /\ UNCHANGED <<w_req, w_event, w_handled>>
         ELSE /\ w_event' = c.event
              /\ w_pc' = "route"
              /\ UNCHANGED <<w_req, w_handled, w_log>>
    /\ UNCHANGED <<payVars, retryVars, keyVars, bulkVars, invoiceVars, fxVars>>

\* Step 2: look the handler up and call it, or print that there is none.
Route ==
    /\ w_pc = "route"
    /\ LET handler == handlers(w_event.type) IN
         w_handled' = IF handler # "" THEN Append(w_handled, handler) ELSE w_handled
    /\ w_pc' = "respond"
    /\ UNCHANGED <<w_req, w_event, w_log>>
    /\ UNCHANGED <<payVars, retryVars, keyVars, bulkVars, invoiceVars, fxVars>>

\* return jsonify({"status": "ok"}), 200
Respond ==
    /\ w_pc = "respond"
    /\ w_log' = Append(w_log, [req |-> w_req, status |-> 200, handled |-> w_handled])
    /\ w_pc' = "listening"
    /\ UNCHANGED <<w_req, w_event, w_handled>>
    /\ UNCHANGED <<payVars, retryVars, keyVars, bulkVars, invoiceVars, fxVars>>

InitHook ==
    /\ ledger = <<>>
    /\ idem = {}
    /\ epoch = [k \in Keys |-> 0]
    /\ calls = <<>>
    /\ RetryIdle
    /\ KeyIdle
    /\ BulkIdle
    /\ InvoiceIdle
    /\ FxIdle
    /\ w_pc = "listening"
    /\ w_req = None
    /\ w_event = None
    /\ w_handled = <<>>
    /\ w_log = <<>>

NextHook ==
    \/ \E req \in Requests : Receive(req)
    \/ Verify
    \/ Route
    \/ Respond

SpecHook == InitHook /\ [][NextHook]_vars

\* C29: a handler has run for the request in hand only if the request's
\* signature is valid and construct_event has returned its event; every
\* answered request whose signature is not valid got 400 and no handler;
\* every answered request with a valid signature got 200 and at most one
\* handler, the one of its event type.
C29_VerifyBeforeHandle ==
    /\ w_handled # <<>> =>
          /\ w_req.sig = "valid"
          /\ w_event # None
          /\ w_pc \in {"respond", "listening"}
    /\ Len(w_handled) <= 1
    /\ \A i \in 1..Len(w_log) :
          LET e == w_log[i] IN
          IF e.req.sig = "valid"
          THEN /\ e.status = 200
               /\ Len(e.handled) <= 1
               /\ \A k \in 1..Len(e.handled) : e.handled[k] = handlers(e.req.type)
          ELSE /\ e.status = 400
               /\ e.handled = <<>>

\* A request without the header refused, then a signed event handled.
C29_Witness ==
    /\ Len(w_log) = 2
    /\ w_log[1].req.sig = "missing"
    /\ w_log[1].status = 400
    /\ w_log[2].req.sig = "valid"
    /\ w_log[2].status = 200
    /\ w_log[2].handled = <<"handle_payment_failed">>

(***************************************************************************)
(* Ticket 09: create_multi_currency_payment                                *)
(* Money is in hundredths of the currency's unit: amount_gbp = 19.99 is    *)
(* 1999. Decimal arithmetic is exact here; the rounding error of Python    *)
(* floats is not modelled.                                                 *)
(***************************************************************************)
AmountsGbp == {100, 1999, 2000, 4999, 10000}
Countries == {"US", "UK", "DE", "FR", "JP", "AU", "BR"}

\* country_to_currency.get(customer_country, "gbp")
detect_customer_currency(customer_country) ==
    CASE customer_country = "US" -> "usd"
      [] customer_country = "UK" -> "gbp"
      [] customer_country \in {"DE", "FR"} -> "eur"
      [] customer_country = "JP" -> "jpy"
      [] customer_country = "AU" -> "aud"
      [] OTHER -> "gbp"

\* STRIPE_EXCHANGE_RATES, in hundredths
STRIPE_EXCHANGE_RATES == [usd |-> 127, eur |-> 117, jpy |-> 18950, aud |-> 243]

\* round(x, 2) of the exact quotient n / d, in hundredths: to the nearest,
\* a tie to the even one.
Round(n, d) ==
    LET q == n \div d
        r == n % d
    IN  IF 2 * r > d \/ (2 * r = d /\ q % 2 = 1) THEN q + 1 ELSE q

\* get_local_amount(base_amount_gbp, target_currency)
get_local_amount(base_amount_gbp, target_currency) ==
    IF target_currency = "gbp" THEN base_amount_gbp
    ELSE Round(base_amount_gbp * STRIPE_EXCHANGE_RATES[target_currency], 100)

\* The amount and currency create_multi_currency_payment passes to
\* stripe.PaymentIntent.create: payment_amount as computed by either branch,
\* then amount_cents = int(payment_amount * 100).
create_multi_currency_payment(amount_gbp, customer_country, charge_in_local_currency) ==
    LET customer_currency == detect_customer_currency(customer_country)
        payment_amount == IF charge_in_local_currency
                          THEN get_local_amount(amount_gbp, customer_currency)
                          ELSE amount_gbp * 100
        currency == IF charge_in_local_currency THEN customer_currency ELSE "gbp"
        \* payment_amount is in hundredths, so payment_amount * 100 in units
        \* is the number itself.
        amount_cents == payment_amount
    IN  [amount |-> amount_cents, currency |-> currency,
         payment_amount |-> payment_amount]

CreatePayment ==
    /\ fx_in # None
    /\ fx_out = None
    /\ fx_out' = create_multi_currency_payment(fx_in.amount_gbp, fx_in.customer_country,
                                               fx_in.charge_in_local_currency)
    /\ UNCHANGED fx_in
    /\ UNCHANGED <<payVars, retryVars, keyVars, bulkVars, invoiceVars, hookVars>>

InitFx ==
    /\ ledger = <<>>
    /\ idem = {}
    /\ epoch = [k \in Keys |-> 0]
    /\ calls = <<>>
    /\ RetryIdle
    /\ KeyIdle
    /\ BulkIdle
    /\ InvoiceIdle
    /\ HookIdle
    /\ fx_in \in [amount_gbp : AmountsGbp, customer_country : Countries,
                  charge_in_local_currency : BOOLEAN]
    /\ fx_out = None

NextFx == CreatePayment

SpecFx == InitFx /\ [][NextFx]_vars

\* C30: a call with charge_in_local_currency false creates the payment in
\* gbp for amount_gbp * 100 minor units, the amount a UK customer charged in
\* local currency is sent for the same amount_gbp.
C30_FallbackAmount ==
    (fx_out # None /\ ~fx_in.charge_in_local_currency) =>
        /\ fx_out.currency = "gbp"
        /\ fx_out.amount = fx_in.amount_gbp
        /\ fx_out.amount = create_multi_currency_payment(fx_in.amount_gbp, "UK", TRUE).amount

====
